---- MODULE Spec2Model ----
(***************************************************************************)
(* A model of the B+ tree of package bplus (bplus.go): the tree, its two   *)
(* node kinds and every method of the node interface, as the source        *)
(* implements them.                                                        *)
(*                                                                         *)
(* Representation                                                          *)
(*   Key, Value ([]byte)  a sequence of bytes; Go's nil slice is NilSlice, *)
(*                        which differs from the empty slice << >>.        *)
(*   []Key, []Value       a sequence; a nil result slice has length 0 and  *)
(*                        is the empty sequence.                           *)
(*   node                 a record tagged by kind; a nil node is NilNode.  *)
(*   leafNode.next        the index of the next leaf in the parent's       *)
(*                        pointers, NilNext when nil.                      *)
(*   error                the string "nil" when there is none.             *)
(***************************************************************************)
EXTENDS Integers, Sequences, FiniteSets, TLC

VARIABLES pc, tree, call, ret, pre, hist, made

vars == <<pc, tree, call, ret, pre, hist, made>>

(***************************************************************************)
(* Bounds of the model.                                                    *)
(***************************************************************************)
MaxOrder == 2
MaxByte == 1
MaxEntries == 2
MaxHist == 2
MaxSlots == 3

(***************************************************************************)
(* fillState (bplus.go:3-9).                                               *)
(***************************************************************************)
nodeEmpty == 0
nodePartiallyFull == 1
nodeFull == 2

(***************************************************************************)
(* Values of the Go types.                                                 *)
(***************************************************************************)
NilSlice == <<-1>>
NilNode == [kind |-> "nil"]
NilNext == 0
NoError == "nil"
NoTree == [order |-> 0, root |-> NilNode]

Bytes == 0..MaxByte
Keys == {<<>>, <<0, 1>>} \cup {<<b>> : b \in Bytes}
Values == {NilSlice, <<>>, <<7>>}

RECURSIVE KeyLess(_, _)
\* bytes.Compare(a, b) < 0: lexicographic order on byte sequences.
KeyLess(a, b) ==
    IF b = <<>> THEN FALSE
    ELSE IF a = <<>> THEN TRUE
    ELSE IF Head(a) # Head(b) THEN Head(a) < Head(b)
    ELSE KeyLess(Tail(a), Tail(b))

KeyLeq(a, b) == a = b \/ KeyLess(a, b)

(***************************************************************************)
(* Constructors.                                                           *)
(***************************************************************************)
newLeafNode(order) ==
    [kind |-> "leaf",
     order |-> order,
     keys |-> [i \in 1..order |-> NilSlice],
     pointers |-> [i \in 1..order |-> NilSlice],
     next |-> NilNext]

newInternalNode_short(order) ==
    [kind |-> "internal",
     order |-> order,
     keys |-> [i \in 1..order |-> NilSlice],
     pointers |-> [i \in 1..order |-> NilNode]]

newInternalNode(order) ==
    [kind |-> "internal",
     order |-> order,
     keys |-> [i \in 1..order |-> NilSlice],
     pointers |-> [i \in 1..(order + 1) |-> NilNode]]

NewBPlusTree_negative(order) ==
    IF order < 0
    THEN [panic |-> TRUE, tree |-> NoTree]
    ELSE [panic |-> FALSE, tree |-> [order |-> order, root |-> newLeafNode(order)]]

NewBPlusTree(order) ==
    IF order <= 0
    THEN [panic |-> TRUE, tree |-> NoTree]
    ELSE [panic |-> FALSE, tree |-> [order |-> order, root |-> newLeafNode(order)]]

BPlusTree_Order(t) == t.order

(***************************************************************************)
(* getFillState: the first nil key decides; a node with no nil key is full.*)
(***************************************************************************)
RECURSIVE fillFrom(_, _)
\* The range loop of getFillState from index i (1-based) on.
fillFrom(keys, i) ==
    IF i > Len(keys) THEN nodeFull
    ELSE IF keys[i] # NilSlice THEN fillFrom(keys, i + 1)
    ELSE IF i = 1 THEN nodeEmpty
    ELSE nodePartiallyFull

RECURSIVE fillFrom_noEmpty(_, _)
fillFrom_noEmpty(keys, i) ==
    IF i > Len(keys) THEN nodeFull
    ELSE IF keys[i] # NilSlice THEN fillFrom_noEmpty(keys, i + 1)
    ELSE nodePartiallyFull

internalNode_getFillState(n) == fillFrom(n.keys, 1)

leafNode_getFillState_noEmpty(n) == fillFrom_noEmpty(n.keys, 1)

leafNode_getFillState(n) == fillFrom(n.keys, 1)

node_getFillState(n) ==
    IF n.kind = "leaf" THEN leafNode_getFillState(n) ELSE internalNode_getFillState(n)

(***************************************************************************)
(* GetKeys and GetValues.  Every result is [val, err].                     *)
(***************************************************************************)
RECURSIVE untilNil(_, _)
\* The elements of s from index i up to, not including, the first NilSlice:
\* for _, x := range s { if x == nil { break }; out = append(out, x) }.
untilNil(s, i) ==
    IF i > Len(s) \/ s[i] = NilSlice THEN <<>>
    ELSE <<s[i]>> \o untilNil(s, i + 1)

leafNode_GetKeys(n) == [val |-> untilNil(n.keys, 1), err |-> NoError]

leafNode_GetValues(n) == [val |-> untilNil(n.pointers, 1), err |-> NoError]

RECURSIVE node_GetKeys(_)
RECURSIVE node_GetValues(_)
RECURSIVE childKeysFrom(_, _)
RECURSIVE childKeysFrom_reversed(_, _)
RECURSIVE childValuesFrom(_, _)

\* The loop of internalNode.GetKeys from pointer i on: break at a nil pointer,
\* return the child's error if it has one, append the child's keys.
childKeysFrom(ps, i) ==
    IF i > Len(ps) \/ ps[i] = NilNode THEN [val |-> <<>>, err |-> NoError]
    ELSE LET k == node_GetKeys(ps[i])
         IN  IF k.err # NoError THEN [val |-> <<>>, err |-> k.err]
             ELSE LET rest == childKeysFrom(ps, i + 1)
                  IN  IF rest.err # NoError THEN rest
                      ELSE [val |-> k.val \o rest.val, err |-> NoError]

childKeysFrom_reversed(ps, i) ==
    IF i > Len(ps) \/ ps[i] = NilNode THEN [val |-> <<>>, err |-> NoError]
    ELSE LET k == node_GetKeys(ps[i])
         IN  IF k.err # NoError THEN [val |-> <<>>, err |-> k.err]
             ELSE LET rest == childKeysFrom_reversed(ps, i + 1)
                  IN  IF rest.err # NoError THEN rest
                      ELSE [val |-> rest.val \o k.val, err |-> NoError]

childValuesFrom(ps, i) ==
    IF i > Len(ps) \/ ps[i] = NilNode THEN [val |-> <<>>, err |-> NoError]
    ELSE LET v == node_GetValues(ps[i])
         IN  IF v.err # NoError THEN [val |-> <<>>, err |-> v.err]
             ELSE LET rest == childValuesFrom(ps, i + 1)
                  IN  IF rest.err # NoError THEN rest
                      ELSE [val |-> v.val \o rest.val, err |-> NoError]

internalNode_GetKeys_reversed(n) == childKeysFrom_reversed(n.pointers, 1)

internalNode_GetKeys(n) == childKeysFrom(n.pointers, 1)

internalNode_GetValues(n) == childValuesFrom(n.pointers, 1)

node_GetKeys(n) ==
    IF n.kind = "leaf" THEN leafNode_GetKeys(n) ELSE internalNode_GetKeys(n)

node_GetValues(n) ==
    IF n.kind = "leaf" THEN leafNode_GetValues(n) ELSE internalNode_GetValues(n)

BPlusTree_GetKeys(t) == node_GetKeys(t.root)

BPlusTree_GetValues(t) == node_GetValues(t.root)

(***************************************************************************)
(* Search, SearchRange, Insert, Update, Delete of both node kinds return   *)
(* nil without reading or writing the node.  A mutator's result is         *)
(* [node, err]: the receiver after the call and the error.                 *)
(***************************************************************************)
internalNode_Search(n, k) == [val |-> NilSlice, err |-> NoError]

internalNode_SearchRange(n, k1, k2) == [val |-> <<>>, err |-> NoError]

internalNode_Insert(n, k, v) == [node |-> n, err |-> NoError]

internalNode_Update(n, k, v) == [node |-> n, err |-> NoError]

internalNode_Delete(n, k) == [node |-> n, err |-> NoError]

leafNode_Search(n, k) == [val |-> NilSlice, err |-> NoError]

leafNode_SearchRange(n, k1, k2) == [val |-> <<>>, err |-> NoError]

leafNode_Insert(n, k, v) == [node |-> n, err |-> NoError]

leafNode_Update(n, k, v) == [node |-> n, err |-> NoError]

leafNode_Delete(n, k) == [node |-> n, err |-> NoError]

BPlusTree_Search(t, k) ==
    IF t.root.kind = "leaf" THEN leafNode_Search(t.root, k)
    ELSE internalNode_Search(t.root, k)

BPlusTree_SearchRange(t, k1, k2) ==
    IF t.root.kind = "leaf" THEN leafNode_SearchRange(t.root, k1, k2)
    ELSE internalNode_SearchRange(t.root, k1, k2)

\* The tree after a mutating call on its root, which is mutated in place.
withRoot(t, r) == [tree |-> [t EXCEPT !.root = r.node], err |-> r.err]

BPlusTree_Insert(t, k, v) ==
    withRoot(t, IF t.root.kind = "leaf" THEN leafNode_Insert(t.root, k, v)
                ELSE internalNode_Insert(t.root, k, v))

BPlusTree_Update(t, k, v) ==
    withRoot(t, IF t.root.kind = "leaf" THEN leafNode_Update(t.root, k, v)
                ELSE internalNode_Update(t.root, k, v))

BPlusTree_Delete(t, k) ==
    withRoot(t, IF t.root.kind = "leaf" THEN leafNode_Delete(t.root, k)
                ELSE internalNode_Delete(t.root, k))

(***************************************************************************)
(* Node states.  The methods above are functions of their receiver; the    *)
(* receivers they are applied to are the trees of at most two levels that  *)
(* the constructors build and whose slots are filled the way the field     *)
(* comments describe: occupied slots first, keys in ascending order, one   *)
(* more child than separator keys, each leaf linked to the next.           *)
(***************************************************************************)
Min(a, b) == IF a < b THEN a ELSE b

RECURSIVE Sum(_)
Sum(s) == IF s = <<>> THEN 0 ELSE Head(s) + Sum(Tail(s))

\* Sequences of n (key, value) pairs in ascending key order.
SortedEntries(n) ==
    {e \in [1..n -> Keys \X Values] :
        \A i \in 1..(n - 1) : KeyLeq(e[i][1], e[i + 1][1])}

\* A leaf of the given order holding the entries in its first slots.
leafWith(order, entries, next) ==
    LET base == newLeafNode(order)
    IN  [base EXCEPT
            !.keys = [i \in DOMAIN base.keys |->
                        IF i <= Len(entries) THEN entries[i][1] ELSE NilSlice],
            !.pointers = [i \in DOMAIN base.pointers |->
                        IF i <= Len(entries) THEN entries[i][2] ELSE NilSlice],
            !.next = next]

\* The ways to share n entries among 2..order+1 leaves of 1..order entries.
Shares(n, order) ==
    UNION {{sz \in [1..c -> 1..order] : Sum(sz) = n} : c \in 2..(order + 1)}

\* An internal node over leaves that hold the entries, sz[i] of them in leaf
\* i; separator i is the first key of leaf i + 1.
internalWith(order, entries, sz) ==
    LET base == newInternalNode(order)
        c == Len(sz)
        first(i) == Sum(SubSeq(sz, 1, i - 1)) + 1
        leaf(i) == leafWith(order,
                            SubSeq(entries, first(i), first(i) + sz[i] - 1),
                            IF i < c THEN i + 1 ELSE NilNext)
    IN  [base EXCEPT
            !.keys = [i \in DOMAIN base.keys |->
                        IF i < c THEN entries[first(i + 1)][1] ELSE NilSlice],
            !.pointers = [i \in DOMAIN base.pointers |->
                        IF i <= c THEN leaf(i) ELSE NilNode]]

LeafTrees ==
    UNION {{[order |-> o, root |-> leafWith(o, e, NilNext)] :
                e \in UNION {SortedEntries(n) : n \in 0..Min(o, MaxEntries)}} :
           o \in 1..MaxOrder}

InternalTrees ==
    UNION {UNION {{[order |-> o, root |-> internalWith(o, e, sz)] :
                        sz \in Shares(Len(e), o)} :
                  e \in UNION {SortedEntries(n) : n \in 2..MaxEntries}} :
           o \in 1..MaxOrder}

WellFormedTrees == LeafTrees \cup InternalTrees

\* Nodes with any pattern of nil and non-nil key slots, for getFillState.
SlotTrees ==
    UNION {{[order |-> o,
             root |-> [newLeafNode(o) EXCEPT !.keys = ks]] :
                ks \in [1..o -> Keys \cup {NilSlice}]}
           \cup
           {[order |-> o,
             root |-> [newInternalNode(o) EXCEPT !.keys = ks]] :
                ks \in [1..o -> Keys \cup {NilSlice}]} :
           o \in 1..MaxSlots}

\* The root of a tree and the children of an internal root.
NodesOf(t) ==
    {t.root} \cup
    (IF t.root.kind = "internal"
     THEN {t.root.pointers[i] : i \in DOMAIN t.root.pointers} \ {NilNode}
     ELSE {})

(***************************************************************************)
(* The calls.  A call is made on an idle tree (pc = "ready") and runs to   *)
(* completion (pc = "called"): call is the call and its arguments, ret its *)
(* result, pre the tree it was made on, tree the tree it leaves.           *)
(***************************************************************************)
Call(op, order, k1, k2, v, n) ==
    [op |-> op, order |-> order, k1 |-> k1, k2 |-> k2, v |-> v, node |-> n]

NoCall == Call("none", 0, NilSlice, NilSlice, NilSlice, NilNode)

OrderArgs == (0 - 1)..MaxOrder

New(order) ==
    /\ pc = "start"
    /\ LET r == NewBPlusTree(order)
       IN  /\ pc' = IF r.panic THEN "panic" ELSE "called"
           /\ tree' = r.tree
    /\ call' = Call("NewBPlusTree", order, NilSlice, NilSlice, NilSlice, NilNode)
    /\ ret' = [val |-> <<>>, err |-> NoError]
    /\ pre' = tree
    /\ made' = order
    /\ UNCHANGED hist

Order ==
    /\ pc = "ready"
    /\ call' = Call("Order", 0, NilSlice, NilSlice, NilSlice, NilNode)
    /\ ret' = [val |-> BPlusTree_Order(tree), err |-> NoError]
    /\ pre' = tree
    /\ pc' = "called"
    /\ UNCHANGED <<tree, hist, made>>

GetKeys ==
    /\ pc = "ready"
    /\ call' = Call("GetKeys", 0, NilSlice, NilSlice, NilSlice, NilNode)
    /\ ret' = BPlusTree_GetKeys(tree)
    /\ pre' = tree
    /\ pc' = "called"
    /\ UNCHANGED <<tree, hist, made>>

GetValues ==
    /\ pc = "ready"
    /\ call' = Call("GetValues", 0, NilSlice, NilSlice, NilSlice, NilNode)
    /\ ret' = BPlusTree_GetValues(tree)
    /\ pre' = tree
    /\ pc' = "called"
    /\ UNCHANGED <<tree, hist, made>>

Search(k) ==
    /\ pc = "ready"
    /\ call' = Call("Search", 0, k, NilSlice, NilSlice, NilNode)
    /\ ret' = BPlusTree_Search(tree, k)
    /\ pre' = tree
    /\ pc' = "called"
    /\ UNCHANGED <<tree, hist, made>>

SearchRange(k1, k2) ==
    /\ pc = "ready"
    /\ call' = Call("SearchRange", 0, k1, k2, NilSlice, NilNode)
    /\ ret' = BPlusTree_SearchRange(tree, k1, k2)
    /\ pre' = tree
    /\ pc' = "called"
    /\ UNCHANGED <<tree, hist, made>>

Insert(k, v) ==
    /\ pc = "ready"
    /\ LET r == BPlusTree_Insert(tree, k, v)
       IN  /\ tree' = r.tree
           /\ ret' = [val |-> <<>>, err |-> r.err]
    /\ call' = Call("Insert", 0, k, NilSlice, v, NilNode)
    /\ pre' = tree
    /\ pc' = "called"
    /\ UNCHANGED made

Update(k, v) ==
    /\ pc = "ready"
    /\ LET r == BPlusTree_Update(tree, k, v)
       IN  /\ tree' = r.tree
           /\ ret' = [val |-> <<>>, err |-> r.err]
    /\ call' = Call("Update", 0, k, NilSlice, v, NilNode)
    /\ pre' = tree
    /\ pc' = "called"
    /\ UNCHANGED made

Delete(k) ==
    /\ pc = "ready"
    /\ LET r == BPlusTree_Delete(tree, k)
       IN  /\ tree' = r.tree
           /\ ret' = [val |-> <<>>, err |-> r.err]
    /\ call' = Call("Delete", 0, k, NilSlice, NilSlice, NilNode)
    /\ pre' = tree
    /\ pc' = "called"
    /\ UNCHANGED made

GetFillState(n) ==
    /\ pc = "ready"
    /\ call' = Call("getFillState", 0, NilSlice, NilSlice, NilSlice, n)
    /\ ret' = [val |-> node_getFillState(n), err |-> NoError]
    /\ pre' = tree
    /\ pc' = "called"
    /\ UNCHANGED <<tree, hist, made>>

\* The call has returned and the caller has its result: the tree is idle again.
Return ==
    /\ pc = "called"
    /\ pc' = "ready"
    /\ call' = NoCall
    /\ ret' = [val |-> <<>>, err |-> NoError]
    /\ pre' = tree
    /\ UNCHANGED <<tree, hist, made>>

\* hist is the log of the mutating calls made on the tree since it was
\* constructed (the arguments of Insert in full), made the order it was
\* constructed with.  Only Spec keeps the log, and at most MaxHist calls of it.
Logged(op, k, v) == [op |-> op, k |-> k, v |-> v]

InsertLogged ==
    \E k \in Keys, v \in Values :
        /\ Len(hist) < MaxHist
        /\ Insert(k, v)
        /\ hist' = Append(hist, Logged("Insert", k, v))

UpdateLogged ==
    \E k \in Keys, v \in Values :
        /\ Len(hist) < MaxHist
        /\ Update(k, v)
        /\ hist' = Append(hist, Logged("Update", NilSlice, NilSlice))

DeleteLogged ==
    \E k \in Keys :
        /\ Len(hist) < MaxHist
        /\ Delete(k)
        /\ hist' = Append(hist, Logged("Delete", NilSlice, NilSlice))

InsertNode == \E k \in Keys, v \in Values : Insert(k, v) /\ UNCHANGED hist
UpdateNode == \E k \in Keys, v \in Values : Update(k, v) /\ UNCHANGED hist
DeleteNode == \E k \in Keys : Delete(k) /\ UNCHANGED hist

Construct == \E order \in OrderArgs : New(order)
SearchAny == \E k \in Keys : Search(k)
SearchRangeAny == \E k1 \in Keys, k2 \in Keys : SearchRange(k1, k2)
FillStateAny == \E n \in NodesOf(tree) : GetFillState(n)

(***************************************************************************)
(* Spec: a client of the package, from NewBPlusTree on.                    *)
(***************************************************************************)
Init ==
    /\ pc = "start"
    /\ tree = NoTree
    /\ call = NoCall
    /\ ret = [val |-> <<>>, err |-> NoError]
    /\ pre = NoTree
    /\ hist = <<>>
    /\ made = 0

Next ==
    \/ Construct
    \/ Order
    \/ GetKeys
    \/ GetValues
    \/ SearchAny
    \/ SearchRangeAny
    \/ InsertLogged
    \/ UpdateLogged
    \/ DeleteLogged
    \/ FillStateAny
    \/ Return

Spec == Init /\ [][Next]_vars

(***************************************************************************)
(* NodeSpec: the node methods applied to the node states above.            *)
(***************************************************************************)
NodeInit ==
    /\ pc = "ready"
    /\ tree \in WellFormedTrees
    /\ call = NoCall
    /\ ret = [val |-> <<>>, err |-> NoError]
    /\ pre = tree
    /\ hist = <<>>
    /\ made = tree.order

NodeNext ==
    \/ Order
    \/ GetKeys
    \/ GetValues
    \/ SearchAny
    \/ SearchRangeAny
    \/ InsertNode
    \/ UpdateNode
    \/ DeleteNode
    \/ FillStateAny
    \/ Return

NodeSpec == NodeInit /\ [][NodeNext]_vars

(***************************************************************************)
(* FillSpec: getFillState applied to every pattern of key slots.           *)
(***************************************************************************)
FillInit ==
    /\ pc = "ready"
    /\ tree \in SlotTrees
    /\ call = NoCall
    /\ ret = [val |-> <<>>, err |-> NoError]
    /\ pre = tree
    /\ hist = <<>>
    /\ made = tree.order

FillNext == FillStateAny \/ Return

FillSpec == FillInit /\ [][FillNext]_vars

(***************************************************************************)
(* The vocabulary of the properties.                                       *)
(***************************************************************************)
RECURSIVE StoredEntries(_)
\* The entries a node holds, in order: a leaf's occupied key slots, each with
\* the value in the same slot of pointers; an internal node's children's.
StoredEntries(n) ==
    IF n.kind = "leaf"
    THEN LET RECURSIVE slots(_)
             slots(i) == IF i > Len(n.keys) \/ n.keys[i] = NilSlice THEN <<>>
                         ELSE <<<<n.keys[i], n.pointers[i]>>>> \o slots(i + 1)
         IN  slots(1)
    ELSE LET RECURSIVE kids(_)
             kids(i) == IF i > Len(n.pointers) \/ n.pointers[i] = NilNode THEN <<>>
                        ELSE StoredEntries(n.pointers[i]) \o kids(i + 1)
         IN  kids(1)

\* The subsequence of the entries whose key is in the set ks.
EntriesWhere(es, ks) ==
    LET keep(e) == e[1] \in ks
    IN  SelectSeq(es, keep)

ValuesOf(es) == [i \in 1..Len(es) |-> es[i][2]]

HasKey(es, k) == \E i \in 1..Len(es) : es[i][1] = k

NonDecreasing(ks) == \A i \in 1..(Len(ks) - 1) : KeyLeq(ks[i], ks[i + 1])

Occupied(keys) == Cardinality({i \in 1..Len(keys) : keys[i] # NilSlice})

OccupiedIsPrefix(keys) ==
    \A i \in 1..Len(keys) : keys[i] # NilSlice => \A j \in 1..i : keys[j] # NilSlice

Returned(op) == pc = "called" /\ call.op = op

OnlyInserts == \A i \in 1..Len(hist) : hist[i].op = "Insert"

DistinctInsertedKeys ==
    \A i, j \in 1..Len(hist) : i # j => hist[i].k # hist[j].k

\* The last two mutating calls were Insert(k, v1) and Insert(k, v2), in that
\* order, and no Insert before them had key k.
InsertedTwice(k, v1, v2) ==
    LET n == Len(hist)
    IN  /\ n >= 2
        /\ hist[n - 1] = Logged("Insert", k, v1)
        /\ hist[n] = Logged("Insert", k, v2)
        /\ \A i \in 1..(n - 2) : hist[i].k # k

(***************************************************************************)
(* C1. Insert/Search round trip: on a tree on which Insert has been called *)
(* for pairwise distinct keys, and no other mutating call made, Search of  *)
(* each inserted key returns the value inserted with it and no error.      *)
(***************************************************************************)
C1_InsertSearchRoundTrip ==
    (Returned("Search") /\ OnlyInserts /\ DistinctInsertedKeys) =>
        \A i \in 1..Len(hist) :
            hist[i].k = call.k1 => ret = [val |-> hist[i].v, err |-> NoError]

C4_DuplicatesKept ==
    \A v1 \in Values, v2 \in Values :
        /\ (Returned("SearchRange") /\ call.k1 = call.k2
                /\ InsertedTwice(call.k1, v1, v2)) =>
              ret = [val |-> <<v1, v2>>, err |-> NoError]
        /\ (Returned("Search") /\ InsertedTwice(call.k1, v1, v2)) =>
              ret = [val |-> v1, err |-> NoError]

C6_GetKeysSorted ==
    pc \in {"ready", "called"} =>
        /\ BPlusTree_GetKeys(tree).err = NoError
        /\ NonDecreasing(BPlusTree_GetKeys(tree).val)
        /\ Returned("GetKeys") => ret = BPlusTree_GetKeys(tree)

C6_Witness ==
    /\ Returned("GetKeys")
    /\ tree.root.kind = "internal"
    /\ Len(ret.val) >= 2
    /\ ret.val[1] # ret.val[Len(ret.val)]

(***************************************************************************)
(* C7. NewBPlusTree(order) panics, and yields no tree, exactly when        *)
(* order < 1; otherwise it yields an empty tree whose root is an empty     *)
(* leaf, and Order() returns that order after any later calls.             *)
(***************************************************************************)
C7_ConstructionAndOrder ==
    /\ call.op = "NewBPlusTree" =>
          /\ (pc = "panic") <=> (call.order < 1)
          /\ pc = "panic" => tree = NoTree
          /\ pc # "panic" =>
                /\ BPlusTree_GetKeys(tree) = [val |-> <<>>, err |-> NoError]
                /\ BPlusTree_GetValues(tree) = [val |-> <<>>, err |-> NoError]
                /\ tree.root.kind = "leaf"
                /\ Len(tree.root.keys) = call.order
                /\ Occupied(tree.root.keys) = 0
    /\ pc \in {"ready", "called"} => made >= 1 /\ BPlusTree_Order(tree) = made
    /\ Returned("Order") => ret.val = made

C7_Witness == Returned("Order") /\ Len(hist) >= 2 /\ ret.val = MaxOrder

C9_OneMorePointerThanKeys ==
    pc \in {"ready", "called"} =>
        \A n \in NodesOf(tree) :
            n.kind = "internal" => Len(n.pointers) = Len(n.keys) + 1

C9_Witness ==
    /\ Returned("Delete")
    /\ tree.root.kind = "internal"
    /\ Occupied(tree.root.keys) >= 1

(***************************************************************************)
(* C10. Fill state: for a node of order >= 1 whose occupied key slots are  *)
(* the first ones, getFillState returns nodeEmpty when none is occupied,   *)
(* nodePartiallyFull when 1..order-1 are, nodeFull when all order are.     *)
(***************************************************************************)
C10_FillStateClassification ==
    Returned("getFillState") =>
        LET n == call.node
            occ == Occupied(n.keys)
        IN  (n.order >= 1 /\ Len(n.keys) = n.order /\ OccupiedIsPrefix(n.keys)) =>
                ret.val = IF occ = 0 THEN nodeEmpty
                          ELSE IF occ <= n.order - 1 THEN nodePartiallyFull
                          ELSE nodeFull

C10_Witness ==
    /\ Returned("getFillState")
    /\ call.node.kind = "leaf"
    /\ call.node.order >= 2
    /\ OccupiedIsPrefix(call.node.keys)
    /\ Occupied(call.node.keys) = call.node.order - 1
    /\ ret.val = nodePartiallyFull

====
